---- MODULE Spec2Model ----
(***************************************************************************)
(* FinDeck input API: the upload/read handlers of                          *)
(* src/api/input_api/endpoints.py and the extraction client of             *)
(* src/api/groq_client.py.                                                 *)
(*                                                                         *)
(* Text (Python str) is a sequence of Unicode code points, an upload's     *)
(* body (Python bytes) a sequence of byte values 0..255.                   *)
(*                                                                         *)
(* The async upload handlers run on one event loop: a step of the model    *)
(* is the code between two awaits. The read handlers are plain functions   *)
(* and each is one step.                                                   *)
(***************************************************************************)
EXTENDS Integers, Sequences, FiniteSets, Bags, TLC

\* ------------------------------------------------------------------ bounds
\* Records stored and upload requests in flight, together: an upload is
\* accepted while there are fewer.
MaxUploads == 2

\* ------------------------------------------------------------- text helpers
\* "sub in s" of Python.
Contains(s, sub) ==
    \E i \in 1..(Len(s) - Len(sub) + 1) : SubSeq(s, i, i + Len(sub) - 1) = sub

\* First index >= i at which sep occurs in s, 0 when there is none.
RECURSIVE FindFrom(_, _, _)
FindFrom(s, sep, i) ==
    IF i + Len(sep) - 1 > Len(s) THEN 0
    ELSE IF SubSeq(s, i, i + Len(sep) - 1) = sep THEN i
    ELSE FindFrom(s, sep, i + 1)

\* s.split(sep): the parts between the non-overlapping occurrences of sep,
\* scanned left to right.
RECURSIVE Split(_, _)
Split(s, sep) ==
    LET i == FindFrom(s, sep, 1) IN
    IF i = 0 THEN <<s>>
    ELSE <<SubSeq(s, 1, i - 1)>> \o Split(SubSeq(s, i + Len(sep), Len(s)), sep)

\* The characters str.strip() removes.
Whitespace == {9, 10, 11, 12, 13, 28, 29, 30, 31, 32, 133, 160}

RECURSIVE LStrip(_)
LStrip(s) ==
    IF s # <<>> /\ Head(s) \in Whitespace THEN LStrip(Tail(s)) ELSE s

RECURSIVE RStrip(_)
RStrip(s) ==
    IF s # <<>> /\ s[Len(s)] \in Whitespace
    THEN RStrip(SubSeq(s, 1, Len(s) - 1)) ELSE s

\* s.strip()
Strip(s) == RStrip(LStrip(s))

\* ------------------------------------------------------- string literals
\* "```"
Fence == <<96, 96, 96>>
\* "csv"
CsvWord == <<99, 115, 118>>
\* ","
Comma == <<44>>
\* "\n"
Newline == <<10>>
\* "Error: "
ErrorPrefix == <<69, 114, 114, 111, 114, 58, 32>>
\* "Error: Could not extract CSV data from the image"
CouldNotExtract ==
    ErrorPrefix \o
    <<67, 111, 117, 108, 100, 32, 110, 111, 116, 32,
      101, 120, 116, 114, 97, 99, 116, 32, 67, 83, 86, 32,
      100, 97, 116, 97, 32, 102, 114, 111, 109, 32,
      116, 104, 101, 32, 105, 109, 97, 103, 101>>
\* "_extracted.csv"
ExtractedSuffix ==
    <<95, 101, 120, 116, 114, 97, 99, 116, 101, 100, 46, 99, 115, 118>>

\* ------------------------------------------------------ bytes.decode('utf-8')
IsCont(b) == b >= 128 /\ b <= 191

\* Number of bytes of the well-formed UTF-8 sequence that starts at b[i],
\* 0 when no well-formed sequence starts there (strict decoding: no overlong
\* forms, no surrogates, nothing above U+10FFFF).
SeqLenAt(b, i) ==
    LET n  == Len(b)
        b0 == b[i]
        c(k) == i + k <= n /\ IsCont(b[i + k])
        r(k, lo, hi) == i + k <= n /\ b[i + k] >= lo /\ b[i + k] <= hi
    IN  IF b0 <= 127 THEN 1
        ELSE IF b0 >= 194 /\ b0 <= 223 THEN (IF c(1) THEN 2 ELSE 0)
        ELSE IF b0 = 224 THEN (IF r(1, 160, 191) /\ c(2) THEN 3 ELSE 0)
        ELSE IF b0 = 237 THEN (IF r(1, 128, 159) /\ c(2) THEN 3 ELSE 0)
        ELSE IF b0 >= 225 /\ b0 <= 239 THEN (IF c(1) /\ c(2) THEN 3 ELSE 0)
        ELSE IF b0 = 240 THEN (IF r(1, 144, 191) /\ c(2) /\ c(3) THEN 4 ELSE 0)
        ELSE IF b0 = 244 THEN (IF r(1, 128, 143) /\ c(2) /\ c(3) THEN 4 ELSE 0)
        ELSE IF b0 >= 241 /\ b0 <= 243 THEN (IF c(1) /\ c(2) /\ c(3) THEN 4 ELSE 0)
        ELSE 0

\* The code point of the k-byte sequence at b[i].
CodePointAt(b, i, k) ==
    IF k = 1 THEN b[i]
    ELSE IF k = 2 THEN (b[i] - 192) * 64 + (b[i + 1] - 128)
    ELSE IF k = 3 THEN (b[i] - 224) * 4096 + (b[i + 1] - 128) * 64 + (b[i + 2] - 128)
    ELSE (b[i] - 240) * 262144 + (b[i + 1] - 128) * 4096
         + (b[i + 2] - 128) * 64 + (b[i + 3] - 128)

RECURSIVE DecodeFrom(_, _)
DecodeFrom(b, i) ==
    IF i > Len(b) THEN [ok |-> TRUE, text |-> <<>>]
    ELSE LET k == SeqLenAt(b, i) IN
         IF k = 0 THEN [ok |-> FALSE, text |-> <<>>]
         ELSE LET rest == DecodeFrom(b, i + k) IN
              [ok |-> rest.ok,
               text |-> IF rest.ok THEN <<CodePointAt(b, i, k)>> \o rest.text
                        ELSE <<>>]

\* Every byte taken as one code point, never failing: decode('latin-1').
DecodeLatin1(contents) == [ok |-> TRUE, text |-> contents]

\* Decoding with newline translation: "\r" becomes "\n".
DecodeUniversalNewlines(contents) ==
    LET d == DecodeFrom(contents, 1) IN
    [ok |-> d.ok,
     text |-> [i \in 1..Len(d.text) |-> IF d.text[i] = 13 THEN 10 ELSE d.text[i]]]

\* contents.decode('utf-8'): ok = FALSE is UnicodeDecodeError.
Utf8Decode(contents) == DecodeFrom(contents, 1)

\* ------------------------------------ list(csv.reader(io.StringIO(text)))
\* The reader's state machine (default dialect: delimiter ",", quotechar '"',
\* doublequote, not strict). EOL is the end-of-line signal the reader feeds
\* itself after each line StringIO hands it; StringIO ends a line at "\n".
EOL == -2

CsvStep(state, c) ==
    LET nl == c \in {10, 13}
        startField ==
            IF nl THEN "EAT_CRNL"
            ELSE IF c = EOL THEN "START_RECORD"
            ELSE IF c = 34 THEN "IN_QUOTED_FIELD"
            ELSE IF c = 44 THEN "START_FIELD"
            ELSE "IN_FIELD"
    IN  CASE state = "START_RECORD" ->
               IF c = EOL THEN "START_RECORD"
               ELSE IF nl THEN "EAT_CRNL"
               ELSE startField
          [] state = "START_FIELD" -> startField
          [] state = "IN_FIELD" ->
               IF nl THEN "EAT_CRNL"
               ELSE IF c = EOL THEN "START_RECORD"
               ELSE IF c = 44 THEN "START_FIELD"
               ELSE "IN_FIELD"
          [] state = "IN_QUOTED_FIELD" ->
               IF c = 34 THEN "QUOTE_IN_QUOTED_FIELD" ELSE "IN_QUOTED_FIELD"
          [] state = "QUOTE_IN_QUOTED_FIELD" ->
               IF c = 34 THEN "IN_QUOTED_FIELD"
               ELSE IF c = 44 THEN "START_FIELD"
               ELSE IF nl THEN "EAT_CRNL"
               ELSE IF c = EOL THEN "START_RECORD"
               ELSE "IN_FIELD"
          [] state = "EAT_CRNL" ->
               IF nl THEN "EAT_CRNL"
               ELSE IF c = EOL THEN "START_RECORD"
               ELSE "ERROR"
          [] OTHER -> "ERROR"

\* Feeds text[i..] to the reader; a line's last character ("\n", or the last
\* character of the text) is followed by EOL.
RECURSIVE CsvRun(_, _, _)
CsvRun(text, i, state) ==
    IF state = "ERROR" THEN "ERROR"
    ELSE IF i > Len(text) THEN state
    ELSE LET s1 == CsvStep(state, text[i])
             s2 == IF s1 # "ERROR" /\ (text[i] = 10 \/ i = Len(text))
                   THEN CsvStep(s1, EOL) ELSE s1
         IN  CsvRun(text, i + 1, s2)

\* TRUE when reading the whole text raises no csv.Error.
CsvParses(text) == CsvRun(text, 1, "START_RECORD") # "ERROR"

\* ---------------------------------------- GroqClient.process_image_bytes
\* The scan of the parts of the split text: the first part without "csv" that
\* has a comma and a newline replaces the text, stripped; no such part leaves
\* the text as it was.
RECURSIVE ScanParts(_, _, _)
ScanParts(parts, i, csv_content) ==
    IF i > Len(parts) THEN csv_content
    ELSE IF ~Contains(parts[i], CsvWord) /\ Contains(parts[i], Comma)
            /\ Contains(parts[i], Newline)
         THEN Strip(parts[i])
         ELSE ScanParts(parts, i + 1, csv_content)

\* The cleanup of the completion's text.
CleanUp(csv_content) ==
    IF Contains(csv_content, Fence)
    THEN ScanParts(Split(csv_content, Fence), 1, csv_content)
    ELSE csv_content

\* What process_image_bytes returns for what the API call did: api.raised
\* is an exception of the call (message api.text), otherwise api.text is the
\* first completion's text.
process_image_bytes(api) ==
    IF api.raised THEN ErrorPrefix \o api.text
    ELSE LET csv_content == CleanUp(api.text) IN
         IF csv_content = <<>> \/ ~Contains(csv_content, Comma)
         THEN CouldNotExtract
         ELSE csv_content

\* ------------------------------------------------------------ the inputs
\* The bodies file.read() may return:
\*   ""  |  "a,b\n1,2"  |  "é,€" (two- and three-byte sequences)  |  "\"a" (a
\*   quote never closed)  |  "a\rb" (a bare carriage return inside a line)  |
\*   0xFF  |  "a" 0xC3 (a sequence cut short)  |  0xC0 0x80 (overlong)  |
\*   0xED 0xA0 0x80 (a surrogate)
Buffers ==
    { <<>>,
      <<97, 44, 98, 10, 49, 44, 50>>,
      <<195, 169, 44, 226, 130, 172>>,
      <<34, 97>>,
      <<97, 13, 98>>,
      <<255>>,
      <<97, 195>>,
      <<192, 128>>,
      <<237, 160, 128>> }

\* file.filename / image.filename: "a".
Filenames == {<<97>>}

\* "a,b\n1,2"
Payload == <<97, 44, 98, 10, 49, 44, 50>>
\* "ok:\n"
ProsePlain == <<111, 107, 58, 10>>
\* "ok, see:\n"
ProseComma == <<111, 107, 44, 32, 115, 101, 101, 58, 10>>
\* "503", an exception's message
ApiErrorText == <<53, 48, 51>>

Completion(text) == [raised |-> FALSE, text |-> text]

\* What the chat-completion call may do: raise, or return one of these texts.
ApiOutcomes ==
    { [raised |-> TRUE, text |-> ApiErrorText],
      Completion(Payload),
      Completion(Fence \o Newline \o Payload \o Newline \o Fence),
      Completion(Fence \o CsvWord \o Newline \o Payload \o Newline \o Fence),
      Completion(ProsePlain \o Fence \o Newline \o Payload \o Newline \o Fence),
      Completion(ProseComma \o Fence \o Newline \o Payload \o Newline \o Fence),
      Completion(<<97, 98>>),
      Completion(<<>>) }

\* Where db.add / db.commit / db.refresh may raise in one create.
Failures == {"none", "add", "commit", "refresh"}

\* --------------------------------------------------------------- the state
VARIABLES
    is_vercel,    \* the deployment flag, fixed for the process
    csv_storage,  \* the in-memory dict, in insertion order: <<[key, value]>>
    next_id,      \* the in-memory id counter
    table,        \* the committed rows of the CSVData table, in key order
    tasks,        \* the upload requests in flight: a bag of Task records
    resp,         \* the response of the request that completed last
    created       \* the successful uploads, in completion order: what each
                  \* was answered, given and stored

vars == <<is_vercel, csv_storage, next_id, table, tasks, resp, created>>

\* The number of records stored.
Stored == Len(csv_storage) + Len(table)

\* The ids a read is made with: those of the records stored, and one more.
ReadIds == 1..(Stored + 1)

\* An upload request suspended at an await; seen is the value next_id had
\* when the request arrived.
Task(op, pc, filename, seen) ==
    [op |-> op, pc |-> pc, filename |-> filename, seen |-> seen]

\* The requests in flight that wait at `pc` of handler `op`.
Waiting(op, pc) == {t \in BagToSet(tasks) : t.op = op /\ t.pc = pc}

\* ------------------------------------------------------- the in-memory dict
DictHas(d, k) == \E i \in 1..Len(d) : d[i].key = k

DictGet(d, k) == d[CHOOSE i \in 1..Len(d) : d[i].key = k].value

\* d[k] = v: a key already there keeps its place, a new key goes last.
DictSet(d, k, v) ==
    IF DictHas(d, k)
    THEN [i \in 1..Len(d) |-> IF d[i].key = k THEN [key |-> k, value |-> v] ELSE d[i]]
    ELSE Append(d, [key |-> k, value |-> v])

\* The id read from the counter when the request arrived, before its awaits.
CurrentIdAtArrival(t, counter) == t.seen

\* current_id = next_id, read when the record is stored.
CurrentId(t, counter) == counter

\* next_id with the increment left out.
NextIdSame(n) == n

\* next_id += 1
NextIdAfter(n) == n + 1

\* ------------------------------------------------- the database session
\* A session as get_db hands it to a handler: nothing pending, no transaction.
NewSession == [pending |-> <<>>, active |-> FALSE, rolled_back |-> FALSE]

\* No session: the handlers are given db = None on the in-memory backend,
\* the value the first branch of get_db is written to hand them.
NoSession == [pending |-> <<>>, active |-> FALSE, rolled_back |-> FALSE]

\* The primary key the table gives the next row: auto-increment.
NextPrimaryKey(tbl) == Len(tbl) + 1

\* db.add(csv_data); db.commit(); db.refresh(csv_data), raising at `fail`.
\* commit inserts the row under the next primary key; a commit that raises
\* leaves the row pending in a transaction that has to be rolled back, and a
\* refresh that raises does so after the row is committed.
Create(tbl, row, fail) ==
    IF fail = "add"
    THEN [ok |-> FALSE, stage |-> "add", table |-> tbl, id |-> 0, sess |-> NewSession]
    ELSE LET added == [NewSession EXCEPT !.pending = <<row>>, !.active = TRUE] IN
         IF fail = "commit"
         THEN [ok |-> FALSE, stage |-> "commit", table |-> tbl, id |-> 0, sess |-> added]
         ELSE LET id == NextPrimaryKey(tbl)
                  committed == Append(tbl, [row EXCEPT !.id = id])
                  reading == [NewSession EXCEPT !.active = TRUE]
              IN  IF fail = "refresh"
                  THEN [ok |-> FALSE, stage |-> "refresh", table |-> committed,
                        id |-> 0, sess |-> reading]
                  ELSE [ok |-> TRUE, stage |-> "none", table |-> committed,
                        id |-> id, sess |-> reading]

\* An except branch that leaves the session as the failure left it.
ExceptNoRollback(sess, vercel) == sess

\* if not is_vercel: db.rollback()
ExceptRollback(sess, vercel) ==
    IF ~vercel
    THEN [pending |-> <<>>, active |-> FALSE, rolled_back |-> TRUE]
    ELSE sess

\* db.query(CSVData).filter(CSVData.id == csv_id).first(): 0 when None.
RowIndex(tbl, csv_id) ==
    IF \E i \in 1..Len(tbl) : tbl[i].id = csv_id
    THEN CHOOSE i \in 1..Len(tbl) : tbl[i].id = csv_id
    ELSE 0

\* ------------------------------------------------------------ responses
NoApi == [raised |-> FALSE, text |-> <<>>]

\* The storage as a response finds it, kept with the response.
Snapshot == [csv_storage |-> csv_storage, next_id |-> next_id, table |-> table]

\* A response: its status and body, and with them what the request was given
\* (arg: the id read; contents: the uploaded bytes; api: what the API call
\* did; key_set: whether GROQ_API_KEY was set) and how its create went.
Response(op, status) ==
    [op |-> op, status |-> status, id |-> 0, filename |-> <<>>, source_type |-> "",
     content |-> <<>>, items |-> <<>>, arg |-> 0, contents |-> <<>>, api |-> NoApi,
     called |-> FALSE, key_set |-> TRUE, stage |-> "none", sess |-> NoSession,
     pre |-> Snapshot]

Meta(r) == [id |-> r.id, filename |-> r.filename, source_type |-> r.source_type]

Init ==
    /\ is_vercel \in BOOLEAN
    /\ csv_storage = <<>>
    /\ next_id = 1
    /\ table = <<>>
    /\ tasks = EmptyBag
    /\ resp = Response("none", 0)
    /\ created = <<>>

\* ------------------------------------------------------------- the actions
CanStart == Stored + BagCardinality(tasks) < MaxUploads

\* POST /upload-csv/ arrives and runs to `await file.read()`.
UploadCsvStart(fn) ==
    /\ CanStart
    /\ tasks' = tasks (+) SetToBag({Task("upload_csv", "read", fn, next_id)})
    /\ UNCHANGED <<is_vercel, csv_storage, next_id, table, resp, created>>

\* POST /upload-image/ arrives and runs to `await image.read()`.
UploadImageStart(fn) ==
    /\ CanStart
    /\ tasks' = tasks (+) SetToBag({Task("upload_image", "read", fn, next_id)})
    /\ UNCHANGED <<is_vercel, csv_storage, next_id, table, resp, created>>

\* The record a handler stores.
Record(id, filename, content, source_type) ==
    [id |-> id, filename |-> filename, content |-> content, source_type |-> source_type]

\* The store-and-respond half of both upload handlers: on the in-memory
\* backend take next_id, advance it and put the record in the dict; on the
\* database add, commit and refresh, and on an exception roll back and
\* answer `errStatus`.
StoreAndRespond(t, r0, filename, content, source_type, fail, errStatus) ==
    IF is_vercel
    THEN LET current_id == CurrentId(t, next_id) IN
         /\ next_id' = NextIdAfter(next_id)
         /\ csv_storage' = DictSet(csv_storage, current_id,
                                   Record(current_id, filename, content, source_type))
         /\ resp' = [r0 EXCEPT !.status = 200, !.id = current_id,
                               !.filename = filename, !.source_type = source_type]
         /\ created' = Append(created, [id |-> current_id, filename |-> filename,
                                        source_type |-> source_type,
                                        content |-> content,
                                        contents |-> r0.contents])
         /\ UNCHANGED table
    ELSE LET c == Create(table, Record(0, filename, content, source_type), fail) IN
         /\ table' = c.table
         /\ UNCHANGED <<csv_storage, next_id>>
         /\ IF c.ok
            THEN /\ resp' = [r0 EXCEPT !.status = 200, !.id = c.id,
                                       !.filename = c.table[c.id].filename,
                                       !.source_type = c.table[c.id].source_type,
                                       !.sess = c.sess]
                 /\ created' = Append(created, [id |-> c.id, filename |-> filename,
                                                source_type |-> source_type,
                                                content |-> content,
                                                contents |-> r0.contents])
            ELSE /\ resp' = [r0 EXCEPT !.status = errStatus, !.stage = c.stage,
                                       !.sess = ExceptRollback(c.sess, is_vercel)]
                 /\ UNCHANGED created

\* upload_csv resumes with the uploaded bytes and runs to its response.
UploadCsvFinish(t, contents, fail) ==
    /\ t \in Waiting("upload_csv", "read")
    /\ fail # "none" => ~is_vercel
    /\ tasks' = tasks (-) SetToBag({t})
    /\ UNCHANGED is_vercel
    /\ LET decoded == Utf8Decode(contents)
           r0 == [Response("upload_csv", 0) EXCEPT !.contents = contents,
                      !.sess = IF is_vercel THEN NoSession ELSE NewSession]
       IN  IF decoded.ok /\ CsvParses(decoded.text)
           THEN StoreAndRespond(t, r0, t.filename, decoded.text,
                                "direct_upload", fail, 400)
           ELSE /\ resp' = [r0 EXCEPT !.status = 400, !.stage = "validate",
                                      !.sess = ExceptRollback(r0.sess, is_vercel)]
                /\ UNCHANGED <<csv_storage, next_id, table, created>>

\* upload_image resumes after image.read() and constructs the GroqClient:
\* without GROQ_API_KEY the constructor raises, the handler rolls back and
\* answers 500; with it the handler goes on to await process_image_bytes.
UploadImageConstruct(t, key_set) ==
    /\ t \in Waiting("upload_image", "read")
    /\ UNCHANGED <<is_vercel, csv_storage, next_id, table, created>>
    /\ IF key_set
       THEN /\ tasks' = (tasks (-) SetToBag({t}))
                            (+) SetToBag({Task("upload_image", "extract", t.filename, t.seen)})
            /\ UNCHANGED resp
       ELSE /\ tasks' = tasks (-) SetToBag({t})
            /\ resp' = [Response("upload_image", 500) EXCEPT !.key_set = FALSE,
                            !.stage = "construct",
                            !.sess = ExceptRollback(
                                IF is_vercel THEN NoSession ELSE NewSession, is_vercel)]

\* upload_image resumes with what process_image_bytes returned and runs to
\* its response.
UploadImageFinish(t, api, fail) ==
    /\ t \in Waiting("upload_image", "extract")
    /\ fail # "none" => ~is_vercel
    /\ tasks' = tasks (-) SetToBag({t})
    /\ UNCHANGED is_vercel
    /\ LET csv_data_content == process_image_bytes(api)
           r0 == [Response("upload_image", 0) EXCEPT !.api = api, !.called = TRUE,
                      !.content = csv_data_content,
                      !.sess = IF is_vercel THEN NoSession ELSE NewSession]
       IN  IF csv_data_content = <<>>
           THEN /\ resp' = [r0 EXCEPT !.status = 400, !.stage = "extract"]
                /\ UNCHANGED <<csv_storage, next_id, table, created>>
           ELSE StoreAndRespond(t, r0, t.filename \o ExtractedSuffix,
                                csv_data_content, "image_conversion", fail, 500)

\* GET /csv/{csv_id}
GetCsvInfo(csv_id) ==
    /\ UNCHANGED <<is_vercel, csv_storage, next_id, table, tasks, created>>
    /\ LET r0 == [Response("get_csv_info", 404) EXCEPT !.arg = csv_id] IN
       IF is_vercel
       THEN IF ~DictHas(csv_storage, csv_id)
            THEN resp' = r0
            ELSE LET data == DictGet(csv_storage, csv_id) IN
                 resp' = [r0 EXCEPT !.status = 200, !.id = data.id,
                              !.filename = data.filename,
                              !.source_type = data.source_type]
       ELSE LET i == RowIndex(table, csv_id) IN
            IF i = 0
            THEN resp' = r0
            ELSE resp' = [r0 EXCEPT !.status = 200, !.id = table[i].id,
                              !.filename = table[i].filename,
                              !.source_type = table[i].source_type]

\* GET /csv/{csv_id}/content
GetCsvContent(csv_id) ==
    /\ UNCHANGED <<is_vercel, csv_storage, next_id, table, tasks, created>>
    /\ LET r0 == [Response("get_csv_content", 404) EXCEPT !.arg = csv_id] IN
       IF is_vercel
       THEN IF ~DictHas(csv_storage, csv_id)
            THEN resp' = r0
            ELSE resp' = [r0 EXCEPT !.status = 200,
                              !.content = DictGet(csv_storage, csv_id).content]
       ELSE LET i == RowIndex(table, csv_id) IN
            IF i = 0
            THEN resp' = r0
            ELSE resp' = [r0 EXCEPT !.status = 200, !.content = table[i].content]

\* The listing in reverse.
ListingReversed(vercel, storage, tbl) ==
    IF vercel
    THEN [i \in 1..Len(storage) |-> Meta(storage[Len(storage) + 1 - i].value)]
    ELSE [i \in 1..Len(tbl) |-> Meta(tbl[Len(tbl) + 1 - i])]

\* The body of GET /csv/: the dict's values in insertion order, or the rows
\* of the table.
Listing(vercel, storage, tbl) ==
    IF vercel
    THEN [i \in 1..Len(storage) |-> Meta(storage[i].value)]
    ELSE [i \in 1..Len(tbl) |-> Meta(tbl[i])]

\* GET /csv/
ListAllCsvs ==
    /\ UNCHANGED <<is_vercel, csv_storage, next_id, table, tasks, created>>
    /\ resp' = [Response("list_all_csvs", 200) EXCEPT
                    !.items = Listing(is_vercel, csv_storage, table)]

Next ==
    \/ \E fn \in Filenames : UploadCsvStart(fn)
    \/ \E fn \in Filenames : UploadImageStart(fn)
    \/ \E t \in BagToSet(tasks), contents \in Buffers, fail \in Failures :
          UploadCsvFinish(t, contents, fail)
    \/ \E t \in BagToSet(tasks), key_set \in BOOLEAN : UploadImageConstruct(t, key_set)
    \/ \E t \in BagToSet(tasks), api \in ApiOutcomes, fail \in Failures :
          UploadImageFinish(t, api, fail)
    \/ \E csv_id \in ReadIds : GetCsvInfo(csv_id)
    \/ \E csv_id \in ReadIds : GetCsvContent(csv_id)
    \/ ListAllCsvs

Spec == Init /\ [][Next]_vars

\* ------------------------------------------------------ terms of the claims
\* "Error:", the marker an extraction failure is tagged with.
ErrorMarker == <<69, 114, 114, 111, 114, 58>>

HasErrorMarker(text) ==
    Len(text) >= Len(ErrorMarker) /\ SubSeq(text, 1, Len(ErrorMarker)) = ErrorMarker

\* The UTF-8 bytes of a text: what a client sends to upload the text.
RECURSIVE Utf8Encode(_)
Utf8Encode(text) ==
    IF text = <<>> THEN <<>>
    ELSE LET c == Head(text)
             bytes == IF c < 128 THEN <<c>>
                      ELSE IF c < 2048 THEN <<192 + (c \div 64), 128 + (c % 64)>>
                      ELSE IF c < 65536
                      THEN <<224 + (c \div 4096), 128 + ((c \div 64) % 64), 128 + (c % 64)>>
                      ELSE <<240 + (c \div 262144), 128 + ((c \div 4096) % 64),
                             128 + ((c \div 64) % 64), 128 + (c % 64)>>
         IN  bytes \o Utf8Encode(Tail(text))

\* Well-formed UTF-8 by the table of the Unicode standard (byte ranges of
\* each sequence length), from b[i] on.
RECURSIVE WellFormedFrom(_, _)
WellFormedFrom(b, i) ==
    LET n == Len(b)
        in(k, lo, hi) == i + k <= n /\ b[i + k] \in lo..hi
    IN  \/ i > n
        \/ in(0, 0, 127) /\ WellFormedFrom(b, i + 1)
        \/ in(0, 194, 223) /\ in(1, 128, 191) /\ WellFormedFrom(b, i + 2)
        \/ /\ \/ in(0, 224, 224) /\ in(1, 160, 191)
              \/ in(0, 225, 236) /\ in(1, 128, 191)
              \/ in(0, 237, 237) /\ in(1, 128, 159)
              \/ in(0, 238, 239) /\ in(1, 128, 191)
           /\ in(2, 128, 191) /\ WellFormedFrom(b, i + 3)
        \/ /\ \/ in(0, 240, 240) /\ in(1, 144, 191)
              \/ in(0, 241, 243) /\ in(1, 128, 191)
              \/ in(0, 244, 244) /\ in(1, 128, 143)
           /\ in(2, 128, 191) /\ in(3, 128, 191) /\ WellFormedFrom(b, i + 4)

DecodesAsText(b) == WellFormedFrom(b, 1)

\* The storage is as the last response found it.
StorageUntouched == Snapshot = resp.pre

\* The ids successful uploads returned.
ReturnedIds == {created[i].id : i \in 1..Len(created)}

\* A code-fenced block wrapping "a,b\n1,2": bare or labelled csv, alone or
\* after a line of prose.
FencedPayloads ==
    { prose \o Fence \o label \o Newline \o Payload \o Newline \o Fence :
        prose \in {<<>>, ProsePlain, ProseComma}, label \in {<<>>, CsvWord} }

\* ------------------------------------------------------------------- C1
\* C1: an upload-image whose extraction result carries the error marker (no
\* comma in the completion, or a failed API call) is answered 400 and stores
\* nothing. Stated for requests whose storage calls do not fail.
C1_ErrorMarkerIsClientError ==
    (resp.op = "upload_image" /\ resp.called /\ resp.stage \in {"none", "extract"}
        /\ HasErrorMarker(resp.content))
    => (resp.status = 400 /\ StorageUntouched)

\* ------------------------------------------------------------------- C2
\* C2: get-content of an id a successful upload-csv returned gives back the
\* uploaded text unchanged: its UTF-8 bytes are the bytes that were uploaded.
C2_ContentRoundTrip ==
    \A i \in 1..Len(created) :
        (resp.op = "get_csv_content" /\ resp.arg = created[i].id
            /\ created[i].source_type = "direct_upload")
        => (resp.status = 200 /\ Utf8Encode(resp.content) = created[i].contents)

\* C2's case: the text with two- and three-byte characters read back from
\* the first record after a second upload.
C2_Witness ==
    /\ resp.op = "get_csv_content" /\ resp.arg = 1 /\ resp.status = 200
    /\ Len(created) = 2 /\ created[1].id = 1
    /\ created[1].contents = <<195, 169, 44, 226, 130, 172>>
    /\ resp.content = <<233, 44, 8364>>

\* ------------------------------------------------------------------- C3
\* C3: for a completion that is a code fence around "a,b\n1,2" (bare or
\* labelled csv, with or without prose before it) the extraction yields
\* exactly "a,b\n1,2".
C3_FenceCleanedToPayload ==
    (resp.op = "upload_image" /\ resp.called /\ ~resp.api.raised
        /\ resp.api.text \in FencedPayloads)
    => resp.content = Payload

C6_UnreturnedIdNotFound ==
    (resp.op \in {"get_csv_info", "get_csv_content"} /\ resp.arg \notin ReturnedIds)
    => (resp.status = 404 /\ StorageUntouched)

\* ------------------------------------------------------------------- C7
\* C7: an upload-image in which the client's construction, the extraction
\* call or a storage call fails is answered 500 and leaves no new record.
C7_FailureIsServerError ==
    (resp.op = "upload_image"
        /\ (~resp.key_set \/ resp.api.raised \/ resp.stage \in {"add", "commit", "refresh"}))
    => (resp.status = 500 /\ StorageUntouched)

\* ------------------------------------------------------------------- C8
\* C8: on the database backend an upload whose add, commit or refresh raised
\* is answered with an error only after rollback: its session holds nothing
\* pending and no open transaction, and every row a read can see is whole.
WholeRow(row) ==
    /\ DOMAIN row = {"id", "filename", "content", "source_type"}
    /\ row.id >= 1
    /\ row.filename # <<>>
    /\ row.source_type \in {"direct_upload", "image_conversion"}

C8_RollbackBeforeError ==
    (~is_vercel /\ resp.op \in {"upload_csv", "upload_image"}
        /\ resp.stage \in {"add", "commit", "refresh"})
    => /\ resp.status \in {400, 500}
       /\ resp.sess.rolled_back /\ resp.sess.pending = <<>> /\ ~resp.sess.active
       /\ \A i \in 1..Len(table) : WholeRow(table[i]) /\ table[i].id = i

\* C8's case: a commit that raised, answered after rollback.
C8_Witness ==
    /\ ~is_vercel /\ resp.op = "upload_image" /\ resp.stage = "commit"
    /\ resp.status = 500 /\ resp.sess.rolled_back

\* ------------------------------------------------------------------- C9
\* C9: on the in-memory backend the keys are 1..next_id-1, each record's id
\* is its key, its fields are all there, and every record is what its upload
\* stored: nothing is updated, deleted or given an id again.
C9_StoreWellFormed ==
    is_vercel =>
        /\ Len(csv_storage) = next_id - 1
        /\ Len(created) = next_id - 1
        /\ \A i \in 1..Len(csv_storage) :
              /\ csv_storage[i].key = i
              /\ csv_storage[i].value.id = i
              /\ WholeRow(csv_storage[i].value)
              /\ csv_storage[i].value =
                    Record(created[i].id, created[i].filename, created[i].content,
                           created[i].source_type)

\* C9's case: two records stored.
C9_Witness == is_vercel /\ Len(csv_storage) = 2 /\ next_id = 3

\* ------------------------------------------------------------------ C10
\* C10: on the in-memory backend, with uploads in flight together and
\* resumed in any order, successful uploads get different ids and none
\* overwrites another's record: as many records as successful uploads.
C10_NoLostUpload ==
    is_vercel =>
        /\ Len(csv_storage) = Len(created)
        /\ \A i, j \in 1..Len(created) : created[i].id = created[j].id => i = j
        /\ \A i \in 1..Len(created) :
              /\ DictHas(csv_storage, created[i].id)
              /\ DictGet(csv_storage, created[i].id).content = created[i].content

\* C10's case: a record stored while a request that arrived before it (it saw
\* the counter at 1) is still suspended at its extraction await.
C10_Witness ==
    /\ is_vercel /\ Len(created) = 1
    /\ \E t \in BagToSet(tasks) : t.pc = "extract" /\ t.seen = 1

====
